---------------------------- MODULE Spec2Model ----------------------------
(***************************************************************************)
(* A model of rdfproxy's SPARQLModelAdapter (src/rdfproxy/adapter.py) and  *)
(* of its query rewriting helpers (src/rdfproxy/utils/sparql/              *)
(* sparql_utils.py).                                                       *)
(*                                                                         *)
(* Query text is a sequence of tokens.  A token is a string that holds no  *)
(* line break, except the token NL, which is one line break; SP is one     *)
(* blank.  The keyword tokens of SelectKw stand for the word "select" in   *)
(* any letter case.  The regular expression and the string operations of   *)
(* the code are computed token by token.                                   *)
(***************************************************************************)
EXTENDS Integers, Sequences, FiniteSets, TLC

NL == "\n"
SP == " "

None == "None"

----------------------------------------------------------------------------
(* Generic sequence helpers.                                               *)

Range(s) == {s[i] : i \in DOMAIN s}

Max(S) == CHOOSE m \in S : \A n \in S : n <= m

Min(S) == CHOOSE m \in S : \A n \in S : m <= n

RECURSIVE Concat(_)
Concat(ss) == IF ss = <<>> THEN <<>> ELSE Head(ss) \o Concat(Tail(ss))

(* str.rfind / str.find for a one-character needle: 0 stands for Python's  *)
(* -1 (not found); positions are 1-based.                                  *)
RFind(s, c) == IF c \in Range(s) THEN Max({i \in DOMAIN s : s[i] = c}) ELSE 0

Find(s, c) == IF c \in Range(s) THEN Min({i \in DOMAIN s : s[i] = c}) ELSE 0

(* s[:point] of Python, point being RFind's answer: everything before the *)
(* found position, and s[:-1] (all but the last element) when not found.   *)
SliceBefore(s, point) ==
    IF point = 0 THEN SubSeq(s, 1, Len(s) - 1) ELSE SubSeq(s, 1, point - 1)

(* str.splitlines: the lines between line breaks; a trailing line break    *)
(* opens no further line, and the empty text has no line at all.           *)
RECURSIVE SplitLinesFrom(_, _)
SplitLinesFrom(s, cur) ==
    IF s = <<>> THEN (IF cur = <<>> THEN <<>> ELSE <<cur>>)
    ELSE IF Head(s) = NL THEN <<cur>> \o SplitLinesFrom(Tail(s), <<>>)
    ELSE SplitLinesFrom(Tail(s), Append(cur, Head(s)))

splitlines(s) == SplitLinesFrom(s, <<>>)

----------------------------------------------------------------------------
(* The regular expression  select\s.+  with re.I, without re.DOTALL.       *)

SelectKw == {"select", "SELECT"}

IsWhitespace(c) == c \in {SP, NL}

(* A match starts at i: the keyword, one whitespace character (a line      *)
(* break is one), and at least one character that is not a line break.    *)
MatchesAt(q, i) ==
    /\ q[i] \in SelectKw
    /\ i + 2 <= Len(q)
    /\ IsWhitespace(q[i + 1])
    /\ q[i + 2] # NL

(* .+ is greedy and stops before the next line break or at the end.        *)
MatchEnd(q, i) ==
    Max({j \in (i + 2)..Len(q) : \A m \in (i + 2)..j : q[m] # NL})

(* re.search: the leftmost start of a match, 0 for no match.               *)
re_search(q) ==
    LET starts == {i \in DOMAIN q : MatchesAt(q, i)}
    IN  IF starts = {} THEN 0 ELSE Min(starts)

Ok(text) == [text |-> text, ok |-> TRUE, err |-> None]

Raise(err) == [text |-> <<>>, ok |-> FALSE, err |-> err]

NoSelectClause == "Exception: Unable to obtain SELECT clause."

replace_query_select_clause(query, repl) ==
    LET i == re_search(query)
    IN  IF i = 0 THEN Raise(NoSelectClause)
        ELSE Ok(SubSeq(query, 1, i - 1) \o repl
                \o SubSeq(query, MatchEnd(query, i) + 1, Len(query)))

CountClause == <<"select", SP, "(count(*) as ?cnt)">>

construct_count_query(query) == replace_query_select_clause(query, CountClause)

GroupedCountClause(group_by) ==
    <<"select", SP, "(count(distinct", SP, "?", group_by, ")", SP, "as ?cnt)">>

construct_grouped_count_query(query, group_by) ==
    replace_query_select_clause(query, GroupedCountClause(group_by))

----------------------------------------------------------------------------
(* inject_subquery.                                                        *)

Indent == 2

Spaces(n) == [i \in 1..n |-> SP]

_indent_query(query) ==
    Concat([i \in DOMAIN splitlines(query) |->
              Spaces(Indent) \o splitlines(query)[i] \o <<NL>>])

(* A faulty variant of inject_subquery: the first closing brace (str.find) instead *)
(* of the last.                                                            *)
inject_subquery_first_brace(query, subquery) ==
    SliceBefore(query, Find(query, "}")) \o <<SP, SP, "{">>
        \o _indent_query(subquery) \o <<"}", NL, "}">>

inject_subquery(query, subquery) ==
    LET point == RFind(query, "}")
        partial_query == SliceBefore(query, point)
        indented_subquery == _indent_query(subquery)
    IN  partial_query \o <<SP, SP, "{">> \o indented_subquery \o <<"}", NL, "}">>

----------------------------------------------------------------------------
(* Bounds of the model.                                                    *)

MaxRows == 3

MaxPage == 3

MaxSize == 2

OffsetPages == 6

OffsetSizes == 10

----------------------------------------------------------------------------
(* calculate_offset.                                                       *)

(* A faulty variant of math.ceil(total / size): the floor, total // size.          *)
Floor(total, size) == total \div size

(* A faulty variant of calculate_offset: size * page in the general case.          *)
calculate_offset_size_times_page(page, size) ==
    CASE page = 1 -> 0
      [] page = 2 -> size
      [] OTHER -> size * page

calculate_offset(page, size) ==
    CASE page = 1 -> 0
      [] page = 2 -> size
      [] OTHER -> size * (page - 1)

(* string.Template.substitute on ungrouped_pagination_base_query:          *)
(* a line break, $query, "limit $limit" and "offset $offset" on lines of   *)
(* their own.                                                              *)
ungrouped_pagination_base_query(query, offset, limit) ==
    <<NL>> \o query \o <<NL, "limit", SP, ToString(limit), NL,
                         "offset", SP, ToString(offset), NL>>

DistinctClause(group_by) == <<"select", SP, "distinct", SP, "?", group_by>>

construct_grouped_pagination_query(query, page, size, group_by) ==
    LET _paginated_query ==
            ungrouped_pagination_base_query(query, calculate_offset(page, size), size)
        subquery == replace_query_select_clause(_paginated_query,
                                                DistinctClause(group_by))
    IN  IF subquery.ok THEN Ok(inject_subquery(query, subquery.text))
        ELSE subquery

----------------------------------------------------------------------------
(* The endpoint: its data and the answers of the query executor.           *)

IntVal(n) == [t |-> "int", v |-> ToString(n)]

StrVal(s) == [t |-> "str", v |-> s]

(* The bindings one result row holds.  A row may lack ?k (an unbound       *)
(* optional variable), and its ?x may be of a type the model rejects.      *)
SourceRows ==
    { [x |-> IntVal(1), k |-> StrVal("1")],
      [x |-> IntVal(2), k |-> IntVal(1)],
      [x |-> IntVal(3), k |-> StrVal("2")],
      [x |-> IntVal(4)],
      [x |-> StrVal("?"), k |-> StrVal("2")] }

RECURSIVE SeqsUpTo(_, _)
SeqsUpTo(S, n) ==
    IF n = 0 THEN {<<>>}
    ELSE LET shorter == SeqsUpTo(S, n - 1)
         IN  shorter \cup {Append(s, e) : s \in {u \in shorter : Len(u) = n - 1}, e \in S}

Sources == SeqsUpTo(SourceRows, MaxRows)

GroupNames == {"k"}

(* The query texts an adapter is constructed with: the SELECT clause on a  *)
(* line of its own; the whole query on one line; and a blank line after    *)
(* the SELECT keyword (valid SPARQL the regular expression does not match).*)
QMulti == <<"select", SP, "?x", SP, "?k", NL, "where", SP, "{", NL,
            SP, SP, "P", NL, "}">>

QSingle == <<"SELECT", SP, "?x", SP, "?k", SP, "where", SP, "{", SP, "P", SP, "}">>

QBlankLine == <<"select", NL, NL, "?x", SP, "?k", NL, "where", SP, "{", NL,
                SP, SP, "P", NL, "}">>

CanonQueries == {QMulti, QSingle, QBlankLine}

Norm(text) == SelectSeq(text, LAMBDA c : ~IsWhitespace(c))

Slice(rows, offset, limit) ==
    SubSeq(rows, offset + 1, IF offset + limit < Len(rows) THEN offset + limit ELSE Len(rows))

(* The distinct values of binding g, in the order of their first row.      *)
RECURSIVE DistinctValues(_, _)
DistinctValues(rows, g) ==
    IF rows = <<>> THEN <<>>
    ELSE LET front == DistinctValues(SubSeq(rows, 1, Len(rows) - 1), g)
             last == rows[Len(rows)]
         IN  IF g \in DOMAIN last /\ last[g] \notin Range(front)
             THEN Append(front, last[g]) ELSE front

Numbers == 0..(MaxSize * (MaxPage + 1))

IsNumber(token) == \E n \in Numbers : ToString(n) = token

Number(token) == CHOOSE n \in Numbers : ToString(n) = token

IsMods(m) ==
    /\ Len(m) = 4
    /\ m[1] = "limit" /\ IsNumber(m[2])
    /\ m[3] = "offset" /\ IsNumber(m[4])

Understood(rows) == [ok |-> TRUE, rows |-> rows]

NotUnderstood == [ok |-> FALSE, rows |-> <<>>]

(* The group graph pattern of a query: { P }, or { P { subquery } } with   *)
(* the subquery  select distinct ?g where { P } limit l offset o.          *)
WhereRows(w, rows) ==
    IF w = <<"where", "{", "P", "}">> THEN Understood(rows)
    ELSE IF /\ Len(w) = 18
            /\ SubSeq(w, 1, 4) = <<"where", "{", "P", "{">>
            /\ w[5] \in SelectKw
            /\ w[6] = "distinct" /\ w[7] = "?" /\ w[8] \in GroupNames
            /\ SubSeq(w, 9, 12) = <<"where", "{", "P", "}">>
            /\ IsMods(SubSeq(w, 13, 16))
            /\ SubSeq(w, 17, 18) = <<"}", "}">>
    THEN LET g == w[8]
             keys == Slice(DistinctValues(rows, g), Number(w[16]), Number(w[14]))
         IN  Understood(SelectSeq(rows, LAMBDA r : g \in DOMAIN r /\ r[g] \in Range(keys)))
    ELSE NotUnderstood

(* The queries the endpoint understands, each with its answer over the     *)
(* rows the pattern P matches: n is the text without its whitespace.       *)
Answer(n, rows) ==
    IF Len(n) < 5 \/ n[1] \notin SelectKw THEN NotUnderstood
    ELSE IF SubSeq(n, 2, 3) = <<"?x", "?k">>
    THEN IF Len(n) >= 11 /\ IsMods(SubSeq(n, Len(n) - 3, Len(n)))
         THEN LET inner == WhereRows(SubSeq(n, 4, Len(n) - 4), rows)
              IN  IF inner.ok
                  THEN Understood(Slice(inner.rows, Number(n[Len(n)]), Number(n[Len(n) - 2])))
                  ELSE NotUnderstood
         ELSE WhereRows(SubSeq(n, 4, Len(n)), rows)
    ELSE IF n[2] = "(count(*) as ?cnt)"
    THEN LET inner == WhereRows(SubSeq(n, 3, Len(n)), rows)
         IN  IF inner.ok THEN Understood(<<[cnt |-> IntVal(Len(inner.rows))]>>)
             ELSE NotUnderstood
    ELSE IF /\ Len(n) >= 6
            /\ n[2] = "(count(distinct" /\ n[3] = "?" /\ n[4] \in GroupNames
            /\ n[5] = ")" /\ n[6] = "as ?cnt)"
    THEN LET inner == WhereRows(SubSeq(n, 7, Len(n)), rows)
         IN  IF inner.ok
             THEN Understood(<<[cnt |-> IntVal(Len(DistinctValues(inner.rows, n[4])))]>>)
             ELSE NotUnderstood
    ELSE NotUnderstood

BadFormed == "QueryBadFormed"

EndpointDown == "EndPointNotFound"

NoRows == "norows"

Outcomes == {"ok", EndpointDown, NoRows}

Response(status, rows) == [rows |-> rows, status |-> status]

(* sparql_wrapper.query() followed by get_bindings_from_query_result: the  *)
(* rows of the answer, no row at all, or an exception of the endpoint.     *)
Execute(text, rows, outcome) ==
    LET answer == Answer(Norm(text), rows)
    IN  IF outcome = EndpointDown THEN Response(EndpointDown, <<>>)
        ELSE IF ~answer.ok THEN Response(BadFormed, <<>>)
        ELSE IF outcome = NoRows THEN Response("ok", <<>>)
        ELSE Response("ok", answer.rows)

----------------------------------------------------------------------------
(* The Python side: model instantiation, results, the dispatch of query(). *)

(* instantiate_model_from_kwargs for a model class with one required       *)
(* field, x: int.                                                          *)
ValidationError == "ValidationError"

instantiate_model_from_kwargs(bindings) ==
    IF "x" \in DOMAIN bindings /\ bindings.x.t = "int"
    THEN [ok |-> TRUE, model |-> [x |-> bindings.x.v]]
    ELSE [ok |-> FALSE, model |-> [x |-> None]]

(* str(key).                                                               *)
Str(value) == value.v

(* int(text): the number the text is the decimal form of.                  *)
CanInt(text) == \E n \in 0..(MaxRows + 1) : ToString(n) = text

ToInt(text) == CHOOSE n \in 0..(MaxRows + 1) : ToString(n) = text

(* math.ceil(total / size) for size >= 1.                                  *)
Ceil(total, size) == IF total % size = 0 THEN total \div size ELSE (total \div size) + 1

NoResult ==
    [err |-> None, total |-> 0, size |-> 0, page |-> 0, kind |-> "none",
     shape |-> "none", list |-> <<>>, group |-> <<>>, pages |-> 0]

ListResult(models) == [NoResult EXCEPT !.kind = "list", !.shape = "list", !.list = models]

GroupResult(group) == [NoResult EXCEPT !.kind = "group", !.shape = "group", !.group = group]

ErrorResult(err) == [NoResult EXCEPT !.kind = "error", !.err = err]

IntResult(n) == [NoResult EXCEPT !.kind = "int", !.total = n]

Page(items, page, size, total, pages) ==
    [items EXCEPT !.kind = "page", !.page = page, !.size = size,
                  !.total = total, !.pages = pages]

(* _query_collect_models over the rows the generator walks: each row is    *)
(* instantiated in turn, and the first failure ends the call.              *)
RECURSIVE CollectFrom(_, _)
CollectFrom(rows, models) ==
    IF rows = <<>> THEN ListResult(models)
    ELSE LET made == instantiate_model_from_kwargs(Head(rows))
         IN  IF ~made.ok THEN ErrorResult(ValidationError)
             ELSE CollectFrom(Tail(rows), Append(models, made.model))

_query_collect_models(rows) == CollectFrom(rows, <<>>)

UndefinedBindingException == "UndefinedBindingException"

(* group[str(key)].append(model) on a defaultdict(list): the mapping is a  *)
(* sequence of entries in the order of their insertion.                    *)
GroupAppend(group, key, model) ==
    IF \E i \in DOMAIN group : group[i].key = key
    THEN [i \in DOMAIN group |->
            IF group[i].key = key
            THEN [group[i] EXCEPT !.models = Append(@, model)] ELSE group[i]]
    ELSE Append(group, [models |-> <<model>>, key |-> key])

(* A faulty variant of _query_group_by: a row without the binding is skipped.      *)
RECURSIVE GroupFromSkipping(_, _, _)
GroupFromSkipping(rows, group_by, group) ==
    IF rows = <<>> THEN GroupResult(group)
    ELSE LET bindings == Head(rows)
             made == instantiate_model_from_kwargs(bindings)
         IN  IF ~made.ok THEN ErrorResult(ValidationError)
             ELSE IF group_by \notin DOMAIN bindings
             THEN GroupFromSkipping(Tail(rows), group_by, group)
             ELSE GroupFromSkipping(Tail(rows), group_by,
                                    GroupAppend(group, Str(bindings[group_by]), made.model))

_query_group_by_skipping(rows, group_by) == GroupFromSkipping(rows, group_by, <<>>)

(* A faulty variant of _query_group_by: the model is put in front of its group.    *)
RECURSIVE GroupFromPrepending(_, _, _)
GroupFromPrepending(rows, group_by, group) ==
    IF rows = <<>> THEN GroupResult(group)
    ELSE LET bindings == Head(rows)
             made == instantiate_model_from_kwargs(bindings)
         IN  IF ~made.ok THEN ErrorResult(ValidationError)
             ELSE IF group_by \notin DOMAIN bindings
             THEN ErrorResult(UndefinedBindingException)
             ELSE GroupFromPrepending(Tail(rows), group_by,
                    LET key == Str(bindings[group_by])
                    IN  IF \E i \in DOMAIN group : group[i].key = key
                        THEN [i \in DOMAIN group |->
                                IF group[i].key = key
                                THEN [group[i] EXCEPT !.models = <<made.model>> \o @]
                                ELSE group[i]]
                        ELSE Append(group, [models |-> <<made.model>>, key |-> key]))

_query_group_by_prepending(rows, group_by) == GroupFromPrepending(rows, group_by, <<>>)

(* The loop of _query_group_by: the generator instantiates a row, then the *)
(* loop body looks its grouping key up.                                    *)
RECURSIVE GroupFrom(_, _, _)
GroupFrom(rows, group_by, group) ==
    IF rows = <<>> THEN GroupResult(group)
    ELSE LET bindings == Head(rows)
             made == instantiate_model_from_kwargs(bindings)
         IN  IF ~made.ok THEN ErrorResult(ValidationError)
             ELSE IF group_by \notin DOMAIN bindings
             THEN ErrorResult(UndefinedBindingException)
             ELSE GroupFrom(Tail(rows), group_by,
                            GroupAppend(group, Str(bindings[group_by]), made.model))

_query_group_by(rows, group_by) == GroupFrom(rows, group_by, <<>>)

(* The match statement of query() on the types of (page, size, group_by).  *)
(* A sequence pattern matches a subject of its own length only; the fifth  *)
(* case parses as ONE sequence pattern of five elements,                   *)
(*     None, int(), (Any() | int()), None, Any()                           *)
(* and the class pattern Any() is an isinstance check that raises.         *)
PNone == <<"NoneType">>

PInt == <<"int">>

PStr == <<"str">>

PAny == <<"Any">>

POr(p, q) == p \o q

Cases ==
    << [pattern |-> <<PNone, PNone, PNone>>, body |-> "collect"],
       [pattern |-> <<PInt, PInt, PNone>>, body |-> "page_ungrouped"],
       [pattern |-> <<PNone, PNone, PStr>>, body |-> "group"],
       [pattern |-> <<PInt, PInt, PStr>>, body |-> "page_grouped"],
       [pattern |-> <<PNone, PInt, POr(PAny, PInt), PNone, PAny>>, body |-> "mutually_dependent"] >>

TypeError == "TypeError: typing.Any cannot be used with isinstance()"

(* One element against an or-pattern, alternative by alternative.          *)
RECURSIVE MatchAlternatives(_, _)
MatchAlternatives(alts, type) ==
    IF alts = <<>> THEN "no"
    ELSE IF Head(alts) = "Any" THEN TypeError
    ELSE IF Head(alts) = type THEN "yes"
    ELSE MatchAlternatives(Tail(alts), type)

RECURSIVE MatchElements(_, _)
MatchElements(pattern, subject) ==
    IF pattern = <<>> THEN "yes"
    ELSE LET first == MatchAlternatives(Head(pattern), Head(subject))
         IN  IF first = "yes" THEN MatchElements(Tail(pattern), Tail(subject))
             ELSE first

MatchSequence(pattern, subject) ==
    IF Len(pattern) # Len(subject) THEN "no" ELSE MatchElements(pattern, subject)

RECURSIVE DispatchFrom(_, _)
DispatchFrom(cases, subject) ==
    IF cases = <<>> THEN "never"
    ELSE LET m == MatchSequence(Head(cases).pattern, subject)
         IN  IF m = "yes" THEN Head(cases).body
             ELSE IF m = "no" THEN DispatchFrom(Tail(cases), subject)
             ELSE m

Dispatch(subject) == DispatchFrom(Cases, subject)

MutuallyDependent == "Exception: Parameters 'page' and 'size' are mutually dependent."

NeverHappen == "Exception: This should never happen."

----------------------------------------------------------------------------
(* The adapter and the calls in flight on it.                              *)

VARIABLES
    _query,        \* self._query, the query text given at construction
    queryString,   \* sparql_wrapper.queryString, the text the executor sends
    source,        \* the rows the endpoint holds for the pattern P
    task,          \* per caller: the call in flight, its locals and its result;
                   \* ran is the text its last executor call sent, and wrong
                   \* records that a call sent a text other than its own
    overlapped,    \* history: two calls have been in flight at the same time
    text_in,       \* the arguments of a call of a rewriting function
    text_out       \* and what the call returned

vars == <<_query, queryString, source, task, overlapped, text_in, text_out>>

Tasks == {1, 2}

IdleTask ==
    [query |-> <<>>, group_by |-> None, size |-> 0, page |-> 0, kind |-> "none",
     items |-> NoResult, pc |-> "idle", phase |-> "none", override |-> FALSE,
     count_query |-> <<>>, cache |-> <<>>, ran |-> <<>>, wrong |-> FALSE,
     resp |-> Response("none", <<>>), res |-> NoResult]

InFlight(t) == task[t].pc \notin {"idle", "done"}

NoText == [query |-> <<>>, fn |-> "none", arg |-> <<>>, parts |-> <<>>]

(* __init__: init_sparql_wrapper sets the wrapper's query to the query.    *)
Init ==
    /\ _query \in CanonQueries
    /\ queryString = _query
    /\ source \in Sources
    /\ task = [t \in Tasks |-> IdleTask]
    /\ overlapped = FALSE
    /\ text_in = NoText
    /\ text_out = Ok(<<>>)

Begin(t, locals) ==
    /\ task[t].pc = "idle"
    /\ task' = [task EXCEPT ![t] = locals]
    /\ overlapped' = (overlapped \/ \E u \in Tasks \ {t} : InFlight(u))
    /\ UNCHANGED <<_query, queryString, source, text_in, text_out>>

Failed(err) == [IdleTask EXCEPT !.pc = "done", !.kind = "query", !.res = ErrorResult(err)]

(* _query_generate_model_bindings_mapping(query=None) is about to run.     *)
StartPlain(kind, group_by) ==
    [IdleTask EXCEPT !.pc = "plain", !.kind = kind, !.group_by = group_by]

(* A call that runs its items query and then its count query, each as an   *)
(* override.                                                               *)
StartOverride(kind, phase, page, size, group_by, query, count_query) ==
    [IdleTask EXCEPT !.pc = "enter", !.kind = kind, !.phase = phase, !.page = page,
                     !.size = size, !.group_by = group_by, !.override = TRUE,
                     !.query = query, !.count_query = count_query]

(* _query_paginate_ungrouped up to its first executor call.                *)
_query_paginate_ungrouped(page, size) ==
    LET paginated_query ==
            ungrouped_pagination_base_query(_query, calculate_offset(page, size), size)
        count_query == construct_count_query(_query)
    IN  IF ~count_query.ok THEN Failed(count_query.err)
        ELSE StartOverride("page_ungrouped", "items", page, size, None,
                           paginated_query, count_query.text)

(* _query_paginate_grouped up to its first executor call.                  *)
_query_paginate_grouped(page, size, group_by) ==
    LET grouped_paginated_query ==
            construct_grouped_pagination_query(_query, page, size, group_by)
        grouped_count_query == construct_grouped_count_query(_query, group_by)
    IN  IF ~grouped_paginated_query.ok THEN Failed(grouped_paginated_query.err)
        ELSE IF ~grouped_count_query.ok THEN Failed(grouped_count_query.err)
        ELSE StartOverride("page_grouped", "items", page, size, group_by,
                           grouped_paginated_query.text, grouped_count_query.text)

(* query(page=, size=, group_by=): 0 stands for a page or size of None.    *)
query(page, size, group_by) ==
    LET body == Dispatch(<<IF page = 0 THEN "NoneType" ELSE "int",
                           IF size = 0 THEN "NoneType" ELSE "int",
                           IF group_by = None THEN "NoneType" ELSE "str">>)
    IN  CASE body = "collect" -> StartPlain("collect", None)
          [] body = "page_ungrouped" -> _query_paginate_ungrouped(page, size)
          [] body = "group" -> StartPlain("group", group_by)
          [] body = "page_grouped" -> _query_paginate_grouped(page, size, group_by)
          [] body = "mutually_dependent" -> Failed(MutuallyDependent)
          [] body = "never" -> Failed(NeverHappen)
          [] OTHER -> Failed(body)

Query(t, pages, sizes) ==
    \E page \in pages, size \in sizes, group_by \in GroupNames \cup {None} :
        Begin(t, [query(page, size, group_by) EXCEPT !.page = page, !.size = size,
                                                     !.group_by = group_by])

(* _get_count(construct_count_query(self._query)) called on its own.       *)
GetCount(t) ==
    LET count_query == construct_count_query(_query)
    IN  Begin(t, IF ~count_query.ok THEN Failed(count_query.err)
                 ELSE StartOverride("count", "count", 0, 0, None,
                                    count_query.text, count_query.text))

Step(t, locals) ==
    /\ task' = [task EXCEPT ![t] = locals]
    /\ UNCHANGED <<_query, queryString, source, overlapped, text_in, text_out>>

(* query is None: self.sparql_wrapper.query() on the wrapper as it is.     *)
RunPlain(t) ==
    /\ task[t].pc = "plain"
    /\ \E outcome \in Outcomes :
        LET resp == Execute(queryString, source, outcome)
        IN  Step(t, [task[t] EXCEPT !.ran = queryString, !.resp = resp,
                        !.wrong = @ \/ queryString # _query,
                        !.pc = IF resp.status = "ok" THEN "map" ELSE "done",
                        !.res = IF resp.status = "ok" THEN @ ELSE ErrorResult(resp.status)])

(* temporary_query_override, a context manager: entering it remembers the  *)
(* wrapper's query text, and leaving it, normally or by an exception, sets *)
(* the remembered text again.                                              *)
temporary_query_override_enter(wrapper_query) == wrapper_query

temporary_query_override_exit(_query_cache) == _query_cache

(* with temporary_query_override(self.sparql_wrapper): the block is        *)
(* entered.                                                                *)
EnterOverride(t) ==
    /\ task[t].pc = "enter"
    /\ Step(t, [task[t] EXCEPT !.cache = temporary_query_override_enter(queryString),
                               !.pc = "set"])

(* A faulty variant of SetQuery: the override is not installed.                    *)
SetQueryForgotten(t) ==
    /\ task[t].pc = "set"
    /\ Step(t, [task[t] EXCEPT !.pc = "run"])

(* sparql_wrapper.setQuery(query) inside the with block.                   *)
SetQuery(t) ==
    /\ task[t].pc = "set"
    /\ queryString' = task[t].query
    /\ task' = [task EXCEPT ![t].pc = "run"]
    /\ UNCHANGED <<_query, source, overlapped, text_in, text_out>>

(* sparql_wrapper.query() inside the with block; an exception of the       *)
(* executor leaves the block through __exit__ as well.                     *)
RunOverride(t) ==
    /\ task[t].pc = "run"
    /\ \E outcome \in Outcomes :
        Step(t, [task[t] EXCEPT !.ran = queryString, !.pc = "exit",
                                !.wrong = @ \/ queryString # task[t].query,
                                !.resp = Execute(queryString, source, outcome)])

AfterOverride(locals) ==
    IF locals.resp.status # "ok"
    THEN [locals EXCEPT !.pc = "done", !.res = ErrorResult(locals.resp.status)]
    ELSE [locals EXCEPT !.pc = IF locals.phase = "count" THEN "next" ELSE "map"]

(* A faulty variant of ExitOverride: the override set without the with block, so   *)
(* that nothing is restored.                                               *)
ExitWithoutRestore(t) ==
    /\ task[t].pc = "exit"
    /\ Step(t, AfterOverride(task[t]))

(* The with block is left, by the end of its body or by the exception of   *)
(* the executor, before the answer is looked at.                           *)
ExitOverride(t) ==
    /\ task[t].pc = "exit"
    /\ queryString' = temporary_query_override_exit(task[t].cache)
    /\ task' = [task EXCEPT ![t] = AfterOverride(task[t])]
    /\ UNCHANGED <<_query, source, overlapped, text_in, text_out>>

(* The rows of the answer are walked: collected or grouped.  A paginating  *)
(* call goes on to its count query.                                        *)
Mapped(locals) ==
    LET items == IF locals.kind \in {"group", "page_grouped"}
                 THEN _query_group_by(locals.resp.rows, locals.group_by)
                 ELSE _query_collect_models(locals.resp.rows)
    IN  IF items.kind = "error" \/ locals.kind \in {"collect", "group"}
        THEN [locals EXCEPT !.pc = "done", !.res = items]
        ELSE [locals EXCEPT !.pc = "enter", !.phase = "count", !.items = items,
                            !.query = locals.count_query]

Map(t) ==
    /\ task[t].pc = "map"
    /\ Step(t, Mapped(task[t]))

StopIteration == "StopIteration"

KeyError == "KeyError"

ValueError == "ValueError"

(* int(next(result)["cnt"]) of _get_count.                                 *)
_get_count(rows) ==
    IF rows = <<>> THEN ErrorResult(StopIteration)
    ELSE IF "cnt" \notin DOMAIN Head(rows) THEN ErrorResult(KeyError)
    ELSE IF ~CanInt(Str(Head(rows).cnt)) THEN ErrorResult(ValueError)
    ELSE IntResult(ToInt(Str(Head(rows).cnt)))

(* The count is read, and a paginating call builds its Page.               *)
Counted(locals) ==
    LET total == _get_count(locals.resp.rows)
    IN  IF total.kind = "error" \/ locals.kind = "count"
        THEN [locals EXCEPT !.pc = "done", !.res = total]
        ELSE [locals EXCEPT !.pc = "done",
                !.res = Page(locals.items, locals.page, locals.size, total.total,
                             Ceil(total.total, locals.size))]

ReadCount(t) ==
    /\ task[t].pc = "next"
    /\ Step(t, Counted(task[t]))

(* The caller takes the result or the exception.                           *)
Return(t) ==
    /\ task[t].pc = "done"
    /\ Step(t, IdleTask)

Advance(t) ==
    \/ RunPlain(t)
    \/ EnterOverride(t)
    \/ SetQuery(t)
    \/ RunOverride(t)
    \/ ExitOverride(t)
    \/ Map(t)
    \/ ReadCount(t)

(* One call in flight at a time, as the design assumes.                    *)
Next ==
    \/ Query(1, 0..MaxPage, 0..MaxSize)
    \/ GetCount(1)
    \/ Advance(1)
    \/ Return(1)

(* Two callers share the adapter with no concurrency control; each makes   *)
(* one call, and one that paginates asks for the first page of size one.   *)
ConcurrentNext ==
    \E t \in Tasks :
        \/ Query(t, 0..1, 0..1)
        \/ GetCount(t)
        \/ Advance(t)

Spec == Init /\ [][Next]_vars

ConcurrentInit ==
    /\ Init
    /\ _query = QMulti
    /\ source = <<[x |-> IntVal(1), k |-> StrVal("1")]>>

ConcurrentSpec == ConcurrentInit /\ [][ConcurrentNext]_vars

----------------------------------------------------------------------------
(* Calls of the rewriting functions on their own.                          *)

Prologues == {<<>>, <<"prefix p: <u>", NL>>}

(* The SELECT clause: on one line; the keyword followed directly by a line *)
(* break; the projection going on over a second line.                      *)
Clauses ==
    UNION {{ <<kw, SP, "?x", SP, "?k">>,
             <<kw, NL, "?x", SP, "?k">>,
             <<kw, SP, "?x", NL, SP, SP, "?k">> } : kw \in SelectKw}

Separators == {<<NL>>, <<SP>>}

Bodies ==
    { <<"where", SP, "{", SP, "P", SP, "}">>,
      <<"where", SP, "{", NL, SP, "P", NL, SP, "{", SP, "select", SP, "?k", SP,
        "where", SP, "{", SP, "Q", SP, "}", SP, "}", NL, "}">> }

Modifiers == {<<>>, <<NL, "order by ?x", NL, "limit", SP, "5">>, <<SP, "limit", SP, "5">>}

(* Well-formed SELECT queries, each with its parts: what comes before the  *)
(* SELECT clause, the clause, and the rest (the WHERE body and the         *)
(* modifiers after it).                                                    *)
WellFormed ==
    { [pre |-> pre, clause |-> clause, rest |-> sep \o body \o mods] :
        pre \in Prologues, clause \in Clauses, sep \in Separators,
        body \in Bodies, mods \in Modifiers }

Text(parts) == parts.pre \o parts.clause \o parts.rest

Replacements == {CountClause, GroupedCountClause("k"), DistinctClause("k")}

(* Subqueries with an empty group graph pattern.                           *)
EmptySubqueries ==
    { <<"select", SP, "*", SP, "where", SP, "{", SP, "}">>,
      <<"select", SP, "*", NL, "where", SP, "{", NL, "}", NL>>,
      <<"{", "}">> }

TextInit ==
    /\ _query = QMulti
    /\ queryString = _query
    /\ source = <<>>
    /\ task = [t \in Tasks |-> IdleTask]
    /\ overlapped = FALSE
    /\ text_in = NoText
    /\ text_out = Ok(<<>>)

Called(fn, parts, arg, out) ==
    /\ text_in' = [query |-> Text(parts), fn |-> fn, arg |-> arg, parts |-> parts]
    /\ text_out' = out
    /\ UNCHANGED <<_query, queryString, source, task, overlapped>>

ReplaceSelectClause ==
    \E parts \in WellFormed, repl \in Replacements :
        Called("replace", parts, repl, replace_query_select_clause(Text(parts), repl))

ConstructCountQuery ==
    \E parts \in WellFormed \cup {[pre |-> <<>>, clause |-> <<"ask">>,
                                   rest |-> <<SP, "{", SP, "P", SP, "}">>]} :
        Called("count", parts, <<>>, construct_count_query(Text(parts)))

InjectSubquery ==
    \E parts \in WellFormed, subquery \in EmptySubqueries :
        Called("inject", parts, subquery, Ok(inject_subquery(Text(parts), subquery)))

TextNext ==
    \/ ReplaceSelectClause
    \/ ConstructCountQuery
    \/ InjectSubquery

TextSpec == TextInit /\ [][TextNext]_vars

----------------------------------------------------------------------------
(* Properties.                                                             *)

Finished(t) == task[t].pc = "done"

ModelsOf(rows) == [i \in DOMAIN rows |-> instantiate_model_from_kwargs(rows[i]).model]

AllInstantiate(rows) == \A i \in DOMAIN rows : instantiate_model_from_kwargs(rows[i]).ok

RECURSIVE SumLengths(_)
SumLengths(group) ==
    IF group = <<>> THEN 0 ELSE Len(Head(group).models) + SumLengths(Tail(group))

(* C1: whenever no call is in flight (before a call, and after it ended    *)
(* with a result or with an exception), the query text of the executor is  *)
(* the text the adapter was constructed with.                              *)
C1_QueryRestored ==
    (\A t \in Tasks : ~InFlight(t)) => queryString = _query

(* A call that ran two overrides and ended with an exception of the        *)
(* executor.                                                               *)
C1_Witness ==
    /\ Finished(1)
    /\ task[1].phase = "count"
    /\ task[1].ran # _query
    /\ task[1].res.kind = "error"
    /\ task[1].res.err = EndpointDown

(* C2: a grouping call over rows that all hold the grouping key and all    *)
(* instantiate returns a mapping; the mapping a grouping call returns has  *)
(* one entry per stringified key value of the rows, each entry lists the   *)
(* models of the rows of that key in row order, and the entries' lengths   *)
(* add up to the number of rows.                                           *)
C2_GroupingPartitionsRows ==
    \A t \in Tasks :
        (Finished(t) /\ task[t].kind = "group" /\ task[t].resp.status = "ok") =>
            LET rows == task[t].resp.rows
                k == task[t].group_by
                g == task[t].res.group
            IN  /\ ((\A i \in DOMAIN rows : k \in DOMAIN rows[i]) /\ AllInstantiate(rows))
                       => task[t].res.kind = "group"
                /\ task[t].res.kind = "group" =>
                       /\ \A i \in DOMAIN rows : k \in DOMAIN rows[i]
                       /\ {g[i].key : i \in DOMAIN g}
                              = {Str(rows[i][k]) : i \in DOMAIN rows}
                       /\ \A i, j \in DOMAIN g : g[i].key = g[j].key => i = j
                       /\ \A i \in DOMAIN g :
                              g[i].models
                                  = ModelsOf(SelectSeq(rows, LAMBDA r : Str(r[k]) = g[i].key))
                       /\ SumLengths(g) = Len(rows)

(* Three rows in two groups, two values of different types sharing one     *)
(* stringified key.                                                        *)
C2_Witness ==
    /\ Finished(1)
    /\ task[1].kind = "group"
    /\ task[1].res.kind = "group"
    /\ Len(task[1].resp.rows) = 3
    /\ Len(task[1].res.group) = 2
    /\ \E i \in DOMAIN task[1].res.group : Len(task[1].res.group[i].models) = 2
    /\ task[1].resp.rows[1].k # task[1].resp.rows[3].k
    /\ Str(task[1].resp.rows[1].k) = Str(task[1].resp.rows[3].k)

Lacking(rows, k) == {i \in DOMAIN rows : k \notin DOMAIN rows[i]}

(* C3 as stated: a grouping call over rows of which one lacks the grouping *)
(* key raises UndefinedBindingException and returns no mapping.            *)
C3_Original ==
    \A t \in Tasks :
        (/\ Finished(t) /\ task[t].kind = "group" /\ task[t].resp.status = "ok"
         /\ Lacking(task[t].resp.rows, task[t].group_by) # {}) =>
            /\ task[t].res.kind = "error"
            /\ task[t].res.err = UndefinedBindingException

(* C3, amended: a grouping call over rows of which one lacks the grouping  *)
(* key returns no mapping; it raises UndefinedBindingException when every  *)
(* row up to and including the first row lacking the key instantiates, and *)
(* the instantiation error of the first row that does not otherwise.       *)
C3_NoPartialMapping ==
    \A t \in Tasks :
        (/\ Finished(t) /\ task[t].kind = "group" /\ task[t].resp.status = "ok"
         /\ Lacking(task[t].resp.rows, task[t].group_by) # {}) =>
            LET rows == task[t].resp.rows
                first == Min(Lacking(rows, task[t].group_by))
            IN  /\ task[t].res.kind = "error"
                /\ task[t].res.group = <<>>
                /\ task[t].res.err =
                       IF AllInstantiate(SubSeq(rows, 1, first))
                       THEN UndefinedBindingException ELSE ValidationError

(* Two rows were grouped before the last row, which lacks the key.         *)
C3_Witness ==
    /\ Finished(1)
    /\ task[1].kind = "group"
    /\ Len(task[1].resp.rows) = 3
    /\ Lacking(task[1].resp.rows, "k") = {3}
    /\ task[1].res.err = UndefinedBindingException

(* C4: the Page an ungrouped paginating call returns has the number of     *)
(* rows of the source as its total, the least number of pages of the given *)
(* size that hold the total as its pages, the page and size it was asked   *)
(* for, and at most size items; the Page a grouped one returns has the     *)
(* number of distinct values of the grouping key as its total, and pages   *)
(* computed from it the same way.                                          *)
IsCeil(pages, total, size) == pages * size >= total /\ (pages - 1) * size < total

C4_PageArithmetic ==
    \A t \in Tasks :
        (Finished(t) /\ task[t].res.kind = "page") =>
            LET page == task[t].res
            IN  /\ IsCeil(page.pages, page.total, page.size)
                /\ page.page = task[t].page /\ page.page >= 1
                /\ page.size = task[t].size /\ page.size >= 1
                /\ task[t].kind = "page_ungrouped" =>
                       /\ page.shape = "list"
                       /\ page.total = Len(source)
                       /\ Len(page.list) <= page.size
                /\ task[t].kind = "page_grouped" =>
                       /\ page.shape = "group"
                       /\ page.total = Cardinality({source[i][task[t].group_by] :
                              i \in DOMAIN source \ Lacking(source, task[t].group_by)})

(* The second page of size two over three rows: one item, two pages.       *)
C4_Witness ==
    /\ Finished(1)
    /\ task[1].kind = "page_ungrouped"
    /\ task[1].res.kind = "page"
    /\ task[1].res.page = 2 /\ task[1].res.size = 2
    /\ task[1].res.total = 3 /\ task[1].res.pages = 2
    /\ Len(task[1].res.list) = 1

EmptyCountResultError == "EmptyCountResultError"

(* C5: reading the count from an answer without rows raises                *)
(* EmptyCountResultError; from an answer of one row it gives the integer   *)
(* of that row's cnt binding.                                              *)
C5_EmptyCountIsDistinctError ==
    \A t \in Tasks :
        (Finished(t) /\ task[t].phase = "count" /\ task[t].resp.status = "ok") =>
            LET rows == task[t].resp.rows
            IN  /\ rows = <<>> =>
                       task[t].res.kind = "error" /\ task[t].res.err = EmptyCountResultError
                /\ (Len(rows) = 1 /\ task[t].kind = "count") =>
                       /\ task[t].res.kind = "int"
                       /\ ToString(task[t].res.total) = rows[1].cnt.v

(* C6: replace_query_select_clause on a well-formed SELECT query returns   *)
(* the query with its SELECT clause, and nothing else, replaced: what      *)
(* comes before the clause, the replacement, and the WHERE body and the    *)
(* modifiers as they were.                                                 *)
C6_OnlySelectClauseReplaced ==
    text_in.fn = "replace" =>
        /\ text_out.ok
        /\ text_out.text = text_in.parts.pre \o text_in.arg \o text_in.parts.rest

(* Depth of group nesting after the first i tokens.                        *)
Depth(text, i) ==
    Cardinality({j \in 1..i : text[j] = "{"}) - Cardinality({j \in 1..i : text[j] = "}"})

(* The closing braces that close an outermost group.                       *)
OuterCloses(text) ==
    Cardinality({i \in DOMAIN text : text[i] = "}" /\ Depth(text, i) = 0})

(* C7: injecting a subquery with an empty pattern leaves the number of     *)
(* outer closing braces as it was, keeps the query's text before its last  *)
(* closing brace verbatim, and puts the subquery there as a nested group,  *)
(* followed by the closing brace.                                          *)
C7_InjectKeepsPrefixAndBraces ==
    text_in.fn = "inject" =>
        LET q == text_in.query
            out == text_out.text
            point == RFind(q, "}")
        IN  /\ point > 0
            /\ OuterCloses(out) = OuterCloses(q)
            /\ Depth(out, Len(out)) = 0
            /\ SubSeq(out, 1, point - 1) = SubSeq(q, 1, point - 1)
            /\ Norm(SubSeq(out, point, Len(out)))
                   = <<"{">> \o Norm(text_in.arg) \o <<"}", "}">>

(* A query with a nested group and modifiers after its body, and a         *)
(* subquery of several lines.                                              *)
C7_Witness ==
    /\ text_in.fn = "inject"
    /\ Cardinality({i \in DOMAIN text_in.query : text_in.query[i] = "}"}) = 3
    /\ text_in.query[Len(text_in.query)] = "5"
    /\ Len(splitlines(text_in.arg)) = 3
    /\ OuterCloses(text_out.text) = 1

(* C8: calculate_offset(page, size) is size * (page - 1), which is 0 for   *)
(* page 1 and size for page 2; and the items query of a paginating call,   *)
(* ungrouped or grouped, carries that offset and the limit size.           *)
ItemsMods(t) ==
    LET n == Norm(task[t].ran)
        last == IF task[t].kind = "page_grouped" THEN Len(n) - 2 ELSE Len(n)
    IN  SubSeq(n, last - 3, last)

C8_OffsetAndLimit ==
    /\ \A size \in 1..OffsetSizes :
          /\ calculate_offset(1, size) = 0
          /\ calculate_offset(2, size) = size
          /\ \A page \in 1..OffsetPages : calculate_offset(page, size) = size * (page - 1)
    /\ OffsetPages >= 5 /\ OffsetSizes >= 10 => calculate_offset(5, 10) = 40
    /\ \A t \in Tasks :
          (/\ task[t].kind \in {"page_ungrouped", "page_grouped"}
           /\ task[t].phase = "items" /\ task[t].pc = "exit") =>
              ItemsMods(t) = <<"limit", ToString(task[t].size),
                               "offset", ToString(task[t].size * (task[t].page - 1))>>

(* The items query of the third page of a grouped pagination was answered. *)
C8_Witness ==
    /\ task[1].kind = "page_grouped"
    /\ task[1].phase = "items" /\ task[1].pc = "exit"
    /\ task[1].page = 3 /\ task[1].size = 2
    /\ task[1].resp.status = "ok"
    /\ ItemsMods(1) = <<"limit", "2", "offset", "4">>

(* C9: as long as no two calls have been in flight at the same time, no    *)
(* call has sent a query text other than its own, and between calls the    *)
(* executor holds the construction-time text.                              *)
C9_SafeOneAtATime ==
    ~overlapped =>
        /\ \A t \in Tasks : ~task[t].wrong
        /\ (\A t \in Tasks : ~InFlight(t)) => queryString = _query

(* Two interleaved calls have both finished: one sent a text that was not  *)
(* its own, and the executor is left with a text other than the            *)
(* construction-time one.                                                  *)
C9_Witness ==
    /\ overlapped
    /\ \A t \in Tasks : Finished(t)
    /\ \E t \in Tasks : task[t].wrong
    /\ \E t \in Tasks : task[t].override
    /\ queryString # _query

(* C10: a query() call given exactly one of page and size fails with the   *)
(* "mutually dependent" error; given neither it returns a list, or a       *)
(* mapping when group_by is given; given both it returns a Page.           *)
C10_Dispatch ==
    \A t \in Tasks :
        (Finished(t) /\ task[t].kind # "count") =>
            LET page == task[t].page
                size == task[t].size
                res == task[t].res
            IN  /\ (page = 0) # (size = 0) =>
                       res.kind = "error" /\ res.err = MutuallyDependent
                /\ res.err # NeverHappen
                /\ (page = 0 /\ size = 0 /\ res.kind # "error") =>
                       res.kind = IF task[t].group_by = None THEN "list" ELSE "group"
                /\ (page # 0 /\ size # 0 /\ res.kind # "error") => res.kind = "page"

=============================================================================
